---- MODULE Spec2Model ----
(***************************************************************************)
(* Troupe OS API: the financials router's ledger posting route             *)
(* (POST /financials/ledger/entries), its reader (GET /ledger/entries),    *)
(* the account, order, order-item and AI task routes, and the PostgreSQL   *)
(* pool the routes share.                                                  *)
(*                                                                         *)
(* A request handler runs synchronously up to its first await, so one      *)
(* action is one synchronous stretch of the handler: Validate is the       *)
(* validation up to `await db.connect()`, and every later action is the    *)
(* continuation that runs when one awaited store call settles.             *)
(***************************************************************************)
EXTENDS Integers, Sequences, FiniteSets, TLC

\* ------------------------------------------------------------------ bounds

\* Concurrent requests.
NumReq == 2
\* Connections the pool may hand out.
NumConn == 2
\* Longest lines array a request carries.
MaxLines == 3

\* ------------------------------------------------------ program constants

\* const DECIMAL_PRECISION = 18
DECIMAL_PRECISION == 18
\* Significand width of a JavaScript Number (IEEE-754 binary64).
MantissaBits == 53

\* ------------------------------------------------- JavaScript number model
\* A non-negative binary number of any size is the set of the positions of
\* its one bits: 5 is {0, 2}, 2^53 is {53}, 2^-64 is {-64}.  A finite
\* JavaScript Number is such a set spanning at most MantissaBits positions.

RECURSIVE BAdd(_, _)
\* Exact addition: sum without carry, plus the carries shifted left.
BAdd(a, b) ==
    IF b = {} THEN a
    ELSE BAdd((a \ b) \cup (b \ a), {i + 1 : i \in a \cap b})

Msb(a) == CHOOSE i \in a : \A j \in a : j <= i

\* Round to nearest, ties to even, at MantissaBits significant bits.
Round53(a) ==
    IF a = {} \/ \A i \in a : i > Msb(a) - MantissaBits THEN a
    ELSE LET cut  == Msb(a) - (MantissaBits - 1)
             kept == {i \in a : i >= cut}
             rem  == {i \in a : i < cut}
             up   == /\ (cut - 1) \in rem
                     /\ (rem # {cut - 1} \/ cut \in a)
         IN  IF up THEN BAdd(kept, {cut}) ELSE kept

\* a + b on Numbers: the exact sum, correctly rounded.
FAdd(a, b) == Round53(BAdd(a, b))

\* a * 10, exactly: a * 8 + a * 2.
Times10(a) == BAdd({i + 3 : i \in a}, {i + 1 : i \in a})

RECURSIVE Scale10(_, _)
\* a * 10^k, exactly.
Scale10(a, k) == IF k = 0 THEN a ELSE Scale10(Times10(a), k - 1)

\* The whole number nearest to a, the larger one of two equally near.
RoundHalfUp(a) == BAdd({i \in a : i >= 0}, IF -1 \in a THEN {0} ELSE {})

\* The Number values the route can compute.
NaN == [k |-> "nan", neg |-> FALSE, mag |-> {}]
Infinity == [k |-> "inf", neg |-> FALSE, mag |-> {}]
Fin(neg, mag) == [k |-> "fin", neg |-> neg /\ mag # {}, mag |-> mag]

\* ------------------------------------------------------------ JSON values
\* A string is the tuple of its characters; a field that is absent or null
\* is Null.  Field s of a value is what String(v) returns for it: a string
\* is itself, and an array of at most one string is that string ([] is "").
\* A JSON number is the Number express.json() parsed it to.

Null == [t |-> "null", s |-> <<>>]
Str(s) == [t |-> "str", s |-> s]
Arr(s) == [t |-> "arr", s |-> s]

\* 2^-64, a positive Number below half a unit of the last fraction digit
\* that DECIMAL_PRECISION keeps; String(2^-64) is its shortest decimal text.
Tiny == [t |-> "num",
         s |-> <<"5",".","4","2","1","0","1","0","8","6","2","4","2","7","5","2","2",
                 "e","-","2","0">>,
         n |-> {-64}]

\* !v for the values a field can hold: undefined, null and "" are falsy,
\* and every array and every number but 0 and NaN is truthy.
Falsy(v) ==
    \/ v.t = "null"
    \/ (v.t = "str" /\ v.s = <<>>)
    \/ (v.t = "num" /\ v.n = {})

Uppers == <<"A","B","C","D","E","F","G","H","I","J","K","L","M",
            "N","O","P","Q","R","S","T","U","V","W","X","Y","Z">>
Lowers == <<"a","b","c","d","e","f","g","h","i","j","k","l","m",
            "n","o","p","q","r","s","t","u","v","w","x","y","z">>

Digits == <<"0","1","2","3","4","5","6","7","8","9">>

IndexIn(tbl, c) == CHOOSE i \in DOMAIN tbl : tbl[i] = c
IsIn(tbl, c) == \E i \in DOMAIN tbl : tbl[i] = c

\* The currency left as submitted.
ToUpperCase_AsIs(s) == s

\* String.prototype.toLowerCase / toUpperCase, character by character.
ToLowerCase(s) ==
    [i \in DOMAIN s |-> IF IsIn(Uppers, s[i]) THEN Lowers[IndexIn(Uppers, s[i])] ELSE s[i]]
ToUpperCase(s) ==
    [i \in DOMAIN s |-> IF IsIn(Lowers, s[i]) THEN Uppers[IndexIn(Lowers, s[i])] ELSE s[i]]

\* The bits of a digit 0..9.
DigitBits(c) ==
    LET d == IndexIn(Digits, c) - 1
    IN  {i \in 0..3 : (d \div (2 ^ i)) % 2 = 1}

RECURSIVE DecimalValue(_, _)
\* The exact value of a digit string, most significant digit first:
\* acc * 10 + digit, with acc * 10 = acc * 8 + acc * 2.
DecimalValue(s, acc) ==
    IF s = <<>> THEN acc
    ELSE DecimalValue(Tail(s),
                      BAdd(BAdd({i + 3 : i \in acc}, {i + 1 : i \in acc}),
                           DigitBits(Head(s))))

AllDigits(s) == s # <<>> /\ \A i \in DOMAIN s : IsIn(Digits, s[i])

\* Number(v) for a string: "" is 0, an optionally signed digit string is its
\* value rounded to a Number, "Infinity" is Infinity, other text is NaN.
ToNumber(s) ==
    IF s = <<>> THEN Fin(FALSE, {})
    ELSE IF AllDigits(s) THEN Fin(FALSE, Round53(DecimalValue(s, {})))
    ELSE IF Head(s) = "-" /\ AllDigits(Tail(s))
        THEN Fin(TRUE, Round53(DecimalValue(Tail(s), {})))
    ELSE IF s = <<"I","n","f","i","n","i","t","y">> THEN Infinity
    ELSE NaN

\* Number(v): a Number is itself; any other value is converted through its
\* string.
NumberOf(v) == IF v.t = "num" THEN Fin(FALSE, v.n) ELSE ToNumber(v.s)

\* Number.isFinite(n)
IsFinite(n) == n.k = "fin"
\* n <= 0 on a finite Number
NonPositive(n) == n.neg \/ n.mag = {}

\* The decimal number with k fraction digits that is nearest to x (the
\* larger one of two equally near): int is the number its integer digits
\* spell and frac the number its fraction digits spell.
Fixed(x, k) ==
    IF \A i \in x : i >= 0 THEN [int |-> x, frac |-> {}]
    ELSE LET whole == {i \in x : i >= 0}
             units == RoundHalfUp(Scale10({i \in x : i < 0}, k))
         IN  IF units = Scale10({0}, k)
             THEN [int |-> BAdd(whole, {0}), frac |-> {}]
             ELSE [int |-> whole, frac |-> units]

\* x.toFixed(DECIMAL_PRECISION) of a non-negative Number below 10^21: the
\* decimal text, with DECIMAL_PRECISION fraction digits, nearest to x.
ToFixed(x) == Fixed(x, DECIMAL_PRECISION)
\* Number(text) of such a text whose fraction digits are all zero, as they
\* are for every sum of whole amounts and of amounts of 2^-64: the Number
\* nearest to its integer part.
NumberOfFixed(f) == Round53((CHOOSE g \in {f} : g.frac = {}).int)

\* ------------------------------------------------------- request bodies
\* body.lines of a request: absent, present but no array, or an array of
\* raw lines {account_id, direction, amount, currency}.

MissingLines == [t |-> "missing", lines |-> <<>>]
NotArrayLines == [t |-> "notarray", lines |-> <<>>]
ArrayLines(ls) == [t |-> "array", lines |-> ls]

debit == <<"d","e","b","i","t">>
credit == <<"c","r","e","d","i","t">>
USD == <<"U","S","D">>
EUR == <<"E","U","R">>
\* 2^53 = 9007199254740992, and its successor, which no Number holds.
Big == <<"9","0","0","7","1","9","9","2","5","4","7","4","0","9","9","2">>
BigPlus1 == <<"9","0","0","7","1","9","9","2","5","4","7","4","0","9","9","3">>

Line(a, d, m, c) == [account_id |-> a, direction |-> d, amount |-> m, currency |-> c]

\* ---------------------------------------------------------- validation
\* The synchronous part of the handler, lines 313-377.

\* The length test left out.
TooFewLines_NoLength(b) == b.t # "array"

\* !Array.isArray(lines) || lines.length < 2
TooFewLines(b) == b.t # "array" \/ Len(b.lines) < 2

\* !account_id || !direction || amount == null || !lineCurrency
MissingField(line) ==
    \/ Falsy(line.account_id)
    \/ Falsy(line.direction)
    \/ line.amount.t = "null"
    \/ Falsy(line.currency)

\* dir !== 'debit' && dir !== 'credit'
BadDirection(dir) == dir # debit /\ dir # credit

\* numericAmount < 0 in place of numericAmount <= 0.
BadAmount_Negative(numericAmount) == ~IsFinite(numericAmount) \/ numericAmount.neg

\* !Number.isFinite(numericAmount) || numericAmount <= 0
BadAmount(numericAmount) == ~IsFinite(numericAmount) \/ NonPositive(numericAmount)

\* roundedDebits !== roundedCredits, each Number(total.toFixed(DECIMAL_PRECISION))
Unbalanced(totalDebits, totalCredits) ==
    LET roundedDebits == NumberOfFixed(ToFixed(totalDebits))
        roundedCredits == NumberOfFixed(ToFixed(totalCredits))
    IN  roundedDebits # roundedCredits

Rejected(msg, dets) ==
    [status |-> 400, error |-> msg, details |-> dets, normalizedLines |-> <<>>]
Passed(nl) ==
    [status |-> 0, error |-> "", details |-> <<>>, normalizedLines |-> nl]

RECURSIVE NormalizeFrom(_, _, _, _, _, _)
\* The loop over lines from index i on, then the double-entry check.
\* currency is <<>> while it is still null.
NormalizeFrom(ls, i, nl, currency, totalDebits, totalCredits) ==
    IF i > Len(ls)
    THEN IF Unbalanced(totalDebits, totalCredits)
         THEN Rejected("Debits and credits must balance",
                       <<NumberOfFixed(ToFixed(totalDebits)),
                         NumberOfFixed(ToFixed(totalCredits))>>)
         ELSE Passed(nl)
    ELSE LET line == ls[i] IN
      IF MissingField(line)
      THEN Rejected("Each line requires account_id, direction, amount, and currency", <<>>)
      ELSE LET dir == ToLowerCase(line.direction.s) IN
        IF BadDirection(dir)
        THEN Rejected("direction must be debit or credit", <<>>)
        ELSE LET numericAmount == NumberOf(line.amount) IN
          IF BadAmount(numericAmount)
          THEN Rejected("amount must be a positive number", <<>>)
          ELSE LET ccy == ToUpperCase(line.currency.s) IN
            IF currency # <<>> /\ currency # ccy
            THEN Rejected("All lines must use the same currency", <<>>)
            ELSE NormalizeFrom(
                   ls, i + 1,
                   Append(nl, [account_id |-> line.account_id.s,
                               direction |-> dir,
                               amount |-> numericAmount.mag,
                               currency |-> ccy]),
                   ccy,
                   IF dir = debit THEN FAdd(totalDebits, numericAmount.mag) ELSE totalDebits,
                   IF dir = debit THEN totalCredits ELSE FAdd(totalCredits, numericAmount.mag))

\* Lines 313-377 as a whole: the 400 response, or the normalized lines.
Validation(b) ==
    IF TooFewLines(b)
    THEN Rejected("At least two ledger lines are required", <<>>)
    ELSE NormalizeFrom(b.lines, 1, <<>>, <<>>, {}, {})

\* --------------------------------------------------------------- state

Req == 1..NumReq
Conn == 1..NumConn
\* client while it is null
NoClient == 0
\* entry before the header insert has returned
NoEntry == [id |-> 0]

VARIABLES
    pc,               \* where each request's handler stands
    body,             \* req.body.lines of each request
    normalizedLines,  \* the handler's normalizedLines
    client,           \* the handler's client
    entry,            \* the handler's entry (entryResult.rows[0])
    lineInserts,      \* the handler's lineInserts
    res,              \* the responses each request has been sent
    trace,            \* each handler's store calls and responses, in order
    inUse,            \* connections checked out of the pool
    tx,               \* each connection's transaction: status and pending rows
    entries,          \* committed rows of ledger_entries
    lines,            \* committed rows of ledger_lines
    accounts,         \* ids of the rows of accounts
    listed,           \* the rows the last GET /ledger/entries returned
    listedAccounts,   \* the rows the last GET /accounts returned
    others,           \* the other routers whose tables have been written
    clock,            \* what NOW() returns to a transaction that starts
    page,             \* the last GET /ledger/entries: its limit and its rows
    accountCodes,     \* the id and the code of the accounts whose code is not NULL
    accountRes,       \* the last response of POST /accounts, and its cause
    item,             \* the locals of each POST /orders/:id/items handler
    orders,           \* committed rows of orders
    orderItems,       \* committed rows of order_items
    tasks             \* rows of ai_agent_tasks

vars == <<pc, body, normalizedLines, client, entry, lineInserts, res, trace,
          inUse, tx, entries, lines, accounts, listed, listedAccounts, others,
          clock, page, accountCodes, accountRes, item, orders, orderItems, tasks>>

handlerVars == <<body, normalizedLines, client, entry, lineInserts>>
storeVars == <<entries, lines, accounts>>
accountVars == <<accountCodes, accountRes>>
marketVars == <<item, orders, orderItems>>
routeVars == <<listedAccounts, others, clock, page, accountVars, marketVars, tasks>>

a1 == <<"a","1">>
a2 == <<"a","2">>
\* an account id no row of accounts has
a9 == <<"a","9">>

\* The header id taken from the request's content: equal input, equal id.
EntryId_FromInput(r) == Len(body[r].lines)

\* ledger_entries.id defaults to gen_random_uuid() and ledger_lines.id is a
\* BIGSERIAL: every insert gets an id no other row has.  Which value it
\* gets is immaterial, so the id is built from the inserting request.
EntryId(r) == r
LineId(r, i) == <<r, i>>

\* A connection outside a transaction block.  Inside one, started is what
\* NOW() returns (the time of its BEGIN), and entries, lines and items are
\* the rows it has inserted and updates the order rows it has updated, all
\* invisible to other connections until COMMIT.
NoTx == [status |-> "idle", started |-> 0, entries |-> {}, lines |-> {},
         items |-> {}, updates |-> {}]

\* The raw limit and the rows of a GET /ledger/entries.
Page(limit, rows) == [limit |-> limit, rows |-> rows]
\* The response and the cause of a POST /accounts; none before the first.
NoAccountRes == [status |-> 0, error |-> "", cause |-> ""]
\* The locals of a POST /orders/:id/items handler before it is entered.
NoProduct == [id |-> <<>>, currency |-> <<>>, unit_price |-> 0, is_active |-> FALSE]
NoItem == [order_id |-> <<>>, product_id |-> Null, quantity |-> Null,
           product |-> NoProduct, subtotal |-> 0, failure |-> ""]

Init ==
    /\ pc = [r \in Req |-> "idle"]
    /\ body = [r \in Req |-> MissingLines]
    /\ normalizedLines = [r \in Req |-> <<>>]
    /\ client = [r \in Req |-> NoClient]
    /\ entry = [r \in Req |-> NoEntry]
    /\ lineInserts = [r \in Req |-> <<>>]
    /\ res = [r \in Req |-> <<>>]
    /\ trace = [r \in Req |-> <<>>]
    /\ inUse = {}
    /\ tx = [c \in Conn |-> NoTx]
    /\ entries = {}
    /\ lines = {}
    /\ accounts = {a1, a2}
    /\ listed = {}
    /\ listedAccounts = {}
    /\ others = {}
    /\ clock = 0
    /\ page = Page(Null, <<>>)
    /\ accountCodes = {}
    /\ accountRes = NoAccountRes
    /\ item = [r \in Req |-> NoItem]
    /\ orders = {}
    /\ orderItems = {}
    /\ tasks = {}

\* ------------------------------------------------------------- responses

Response400(v) == [status |-> 400, error |-> v.error, details |-> v.details,
                   entry |-> NoEntry, lines |-> <<>>]
Response500(msg) == [status |-> 500, error |-> msg, details |-> <<>>,
                     entry |-> NoEntry, lines |-> <<>>]
Response201(e, ls) == [status |-> 201, error |-> "", details |-> <<>>,
                       entry |-> e, lines |-> ls]

\* ------------------------------------------------------ the posting route

\* The route is entered with a request body.  Requests are numbered in
\* the order they arrive.
Arrive(r, b) ==
    /\ pc[r] = "idle"
    /\ \A q \in Req : q < r => pc[q] # "idle"
    /\ pc' = [pc EXCEPT ![r] = "validating"]
    /\ body' = [body EXCEPT ![r] = b]
    /\ UNCHANGED <<normalizedLines, client, entry, lineInserts, res, trace,
                   inUse, tx, storeVars, listed, routeVars>>

\* The connection asked for before the body is validated.
Reject_AfterConnect(r, v) ==
    /\ res' = [res EXCEPT ![r] = Append(@, Response400(v))]
    /\ trace' = [trace EXCEPT ![r] = @ \o <<"connect", "res400">>]
    /\ pc' = [pc EXCEPT ![r] = "done"]
    /\ UNCHANGED normalizedLines

\* The return left out: the 400 is sent and the handler goes on to connect.
Reject_NoReturn(r, v) ==
    /\ res' = [res EXCEPT ![r] = Append(@, Response400(v))]
    /\ trace' = [trace EXCEPT ![r] = @ \o <<"res400", "connect">>]
    /\ pc' = [pc EXCEPT ![r] = "connect"]
    /\ UNCHANGED normalizedLines

\* Lines 314, 333, 338, 343, 350, 373-376: return the 400 response.
Reject(r, v) ==
    /\ res' = [res EXCEPT ![r] = Append(@, Response400(v))]
    /\ trace' = [trace EXCEPT ![r] = Append(@, "res400")]
    /\ pc' = [pc EXCEPT ![r] = "done"]
    /\ UNCHANGED normalizedLines

\* Lines 379-382: validation passed; call db.connect().
Proceed(r, v) ==
    /\ normalizedLines' = [normalizedLines EXCEPT ![r] = v.normalizedLines]
    /\ trace' = [trace EXCEPT ![r] = Append(@, "connect")]
    /\ pc' = [pc EXCEPT ![r] = "connect"]
    /\ UNCHANGED res

\* Lines 313-382: validate and normalize; answer 400, or call db.connect().
Validate(r) ==
    /\ pc[r] = "validating"
    /\ LET v == Validation(body[r]) IN
         IF v.status = 400 THEN Reject(r, v) ELSE Proceed(r, v)
    /\ UNCHANGED <<body, client, entry, lineInserts, inUse, tx, storeVars, listed, routeVars>>

\* Lines 380-386: db.connect() rejected.
ConnectFail(r) ==
    /\ pc[r] = "connect"
    /\ res' = [res EXCEPT ![r] = Append(@, Response500("Database connection failed"))]
    /\ trace' = [trace EXCEPT ![r] = @ \o <<"connectError", "res500">>]
    /\ pc' = [pc EXCEPT ![r] = "done"]
    /\ UNCHANGED <<handlerVars, inUse, tx, storeVars, listed, routeVars>>

\* A pool of one connection (max: 1): a connection is handed out only
\* while no other is in use.
ConnectOk_OneAtATime(r, c) ==
    /\ pc[r] = "connect"
    /\ c \notin inUse
    /\ inUse = {}
    /\ \A d \in Conn : d < c => (d \in inUse \/ tx[d] # tx[c])
    /\ inUse' = inUse \cup {c}
    /\ client' = [client EXCEPT ![r] = c]
    /\ trace' = [trace EXCEPT ![r] = Append(@, "BEGIN")]
    /\ pc' = [pc EXCEPT ![r] = "begin"]
    /\ UNCHANGED <<body, normalizedLines, entry, lineInserts, res, tx, storeVars, listed, routeVars>>

\* Lines 382, 389: db.connect() resolved with an idle connection of the
\* pool; the handler calls BEGIN on it.  Of the idle connections in one
\* and the same state, which are interchangeable, the first is handed out.
ConnectOk(r, c) ==
    /\ pc[r] = "connect"
    /\ c \notin inUse
    /\ \A d \in Conn : d < c => (d \in inUse \/ tx[d] # tx[c])
    /\ inUse' = inUse \cup {c}
    /\ client' = [client EXCEPT ![r] = c]
    /\ trace' = [trace EXCEPT ![r] = Append(@, "BEGIN")]
    /\ pc' = [pc EXCEPT ![r] = "begin"]
    /\ UNCHANGED <<body, normalizedLines, entry, lineInserts, res, tx, storeVars, listed, routeVars>>

\* The catch block without its ROLLBACK: the 500 goes out at once.
Catch_NoRollback(r) ==
    /\ res' = [res EXCEPT ![r] = Append(@, Response500("Failed to create ledger entry"))]
    /\ trace' = [trace EXCEPT ![r] = @ \o <<"error", "res500", "release">>]
    /\ inUse' = inUse \ {client[r]}
    /\ pc' = [pc EXCEPT ![r] = "done"]

\* Lines 446-449: a store call of the try block rejected; the handler calls
\* ROLLBACK on its client.
Catch(r) ==
    /\ trace' = [trace EXCEPT ![r] = @ \o <<"error", "ROLLBACK">>]
    /\ pc' = [pc EXCEPT ![r] = "rollback"]
    /\ UNCHANGED <<res, inUse>>

\* The release in the try block instead of a finally: skipped on an error.
Finish_NoReleaseOnError(r, response, event) ==
    /\ res' = [res EXCEPT ![r] = Append(@, response)]
    /\ trace' = [trace EXCEPT ![r] =
                   @ \o (IF response.status = 201 THEN <<event, "release">> ELSE <<event>>)]
    /\ inUse' = IF response.status = 201 THEN inUse \ {client[r]} ELSE inUse
    /\ pc' = [pc EXCEPT ![r] = "done"]

\* Lines 442-445 or 454-455, then 456-460: send the response, then release
\* the client in the finally block.
Finish(r, response, event) ==
    /\ res' = [res EXCEPT ![r] = Append(@, response)]
    /\ trace' = [trace EXCEPT ![r] = @ \o <<event, "release">>]
    /\ inUse' = inUse \ {client[r]}
    /\ pc' = [pc EXCEPT ![r] = "done"]

\* Line 389 resolved: the connection is in a transaction block; the handler
\* calls the header insert.
BeginOk(r) ==
    /\ pc[r] = "begin"
    /\ tx[client[r]].status = "idle"
    /\ tx' = [tx EXCEPT ![client[r]].status = "open", ![client[r]].started = clock]
    /\ trace' = [trace EXCEPT ![r] = Append(@, "INSERT_ENTRY")]
    /\ pc' = [pc EXCEPT ![r] = "insertEntry"]
    /\ UNCHANGED <<handlerVars, res, inUse, storeVars, listed, routeVars>>

\* Line 389 rejected: always when the connection holds a failed transaction
\* (commands are ignored until the end of the transaction block).
BeginFail(r) ==
    /\ pc[r] = "begin"
    /\ Catch(r)
    /\ UNCHANGED <<handlerVars, tx, storeVars, listed, routeVars>>

\* The header insert sent through the pool (db.query): committed at once.
WriteEntryRow_Pool(c, row) ==
    /\ entries' = entries \cup {row}
    /\ UNCHANGED <<tx, lines>>

\* Line 391: the header insert runs on the handler's client, inside its
\* transaction: the row is pending until COMMIT.
WriteEntryRow(c, row) ==
    /\ tx' = [tx EXCEPT ![c].entries = @ \cup {row}]
    /\ UNCHANGED <<entries, lines>>

\* Lines 391-411 resolved: the header row is written; lines 413-415: the
\* handler calls the first line insert (COMMIT, were there no line).
InsertEntryOk(r) ==
    /\ pc[r] = "insertEntry"
    /\ tx[client[r]].status = "open"
    /\ LET row == [id |-> EntryId(r), occurred_at |-> tx[client[r]].started]
           none == normalizedLines[r] = <<>>
       IN
         /\ entry' = [entry EXCEPT ![r] = row]
         /\ WriteEntryRow(client[r], row)
         /\ trace' = [trace EXCEPT ![r] = Append(@, IF none THEN "COMMIT" ELSE "INSERT_LINE")]
         /\ pc' = [pc EXCEPT ![r] = IF none THEN "commit" ELSE "insertLine"]
    /\ UNCHANGED <<body, normalizedLines, client, lineInserts, res, inUse,
                   accounts, listed, routeVars>>

\* A statement rejected inside a transaction block leaves the block failed:
\* its pending rows are lost to every later command.
Failed(t) ==
    IF t.status = "idle" THEN t
    ELSE [NoTx EXCEPT !.status = "aborted", !.started = t.started]

\* Lines 391-409 rejected.
InsertEntryFail(r) ==
    /\ pc[r] = "insertEntry"
    /\ tx' = [tx EXCEPT ![client[r]] = Failed(@)]
    /\ Catch(r)
    /\ UNCHANGED <<handlerVars, storeVars, listed, routeVars>>

\* amount NUMERIC(36, 18): a value is stored rounded to NumericScale
\* fraction digits.
NumericScale == 18
Numeric(x) == Fixed(x, NumericScale)

\* The line the loop of lines 414-438 inserts next.
NextLine(r) == normalizedLines[r][Len(lineInserts[r]) + 1]

\* The line insert sent through the pool (db.query): committed at once.
WriteLineRow_Pool(c, row) ==
    /\ lines' = lines \cup {row}
    /\ UNCHANGED <<tx, entries>>

\* Line 415: a line insert runs on the handler's client, inside its
\* transaction: the row is pending until COMMIT.
WriteLineRow(c, row) ==
    /\ tx' = [tx EXCEPT ![c].lines = @ \cup {row}]
    /\ UNCHANGED <<entries, lines>>

\* The line insert without the foreign key on account_id.
InsertLineOk_NoForeignKey(r) ==
    /\ pc[r] = "insertLine"
    /\ tx[client[r]].status = "open"
    /\ LET row == [id |-> LineId(r, Len(lineInserts[r]) + 1),
                   entry_id |-> entry[r].id,
                   account_id |-> NextLine(r).account_id,
                   direction |-> NextLine(r).direction,
                   amount |-> Numeric(NextLine(r).amount),
                   currency |-> NextLine(r).currency]
           last == Len(lineInserts[r]) + 1 = Len(normalizedLines[r])
       IN
         /\ WriteLineRow(client[r], row)
         /\ lineInserts' = [lineInserts EXCEPT ![r] = Append(@, row)]
         /\ trace' = [trace EXCEPT ![r] = Append(@, IF last THEN "COMMIT" ELSE "INSERT_LINE")]
         /\ pc' = [pc EXCEPT ![r] = IF last THEN "commit" ELSE "insertLine"]
    /\ UNCHANGED <<body, normalizedLines, client, entry, res, inUse,
                   accounts, listed, routeVars>>

\* Lines 415-437 resolved: the line row is written (its account_id
\* references a row of accounts); the handler calls the next line insert
\* or, after the last line, COMMIT (line 440).
InsertLineOk(r) ==
    /\ pc[r] = "insertLine"
    /\ tx[client[r]].status = "open"
    /\ NextLine(r).account_id \in accounts
    /\ LET row == [id |-> LineId(r, Len(lineInserts[r]) + 1),
                   entry_id |-> entry[r].id,
                   account_id |-> NextLine(r).account_id,
                   direction |-> NextLine(r).direction,
                   amount |-> Numeric(NextLine(r).amount),
                   currency |-> NextLine(r).currency]
           last == Len(lineInserts[r]) + 1 = Len(normalizedLines[r])
       IN
         /\ WriteLineRow(client[r], row)
         /\ lineInserts' = [lineInserts EXCEPT ![r] = Append(@, row)]
         /\ trace' = [trace EXCEPT ![r] = Append(@, IF last THEN "COMMIT" ELSE "INSERT_LINE")]
         /\ pc' = [pc EXCEPT ![r] = IF last THEN "commit" ELSE "insertLine"]
    /\ UNCHANGED <<body, normalizedLines, client, entry, res, inUse,
                   accounts, listed, routeVars>>

\* The inserts run outside a transaction block (no BEGIN): what was
\* inserted before the failing line stays.
InsertLineFail_Autocommit(r) ==
    /\ pc[r] = "insertLine"
    /\ entries' = entries \cup tx[client[r]].entries
    /\ lines' = lines \cup tx[client[r]].lines
    /\ tx' = [tx EXCEPT ![client[r]] = Failed(@)]
    /\ Catch(r)
    /\ UNCHANGED <<handlerVars, accounts, listed, routeVars>>

\* Lines 415-436 rejected: a missing account, or an I/O failure.
InsertLineFail(r) ==
    /\ pc[r] = "insertLine"
    /\ tx' = [tx EXCEPT ![client[r]] = Failed(@)]
    /\ Catch(r)
    /\ UNCHANGED <<handlerVars, storeVars, listed, routeVars>>

\* The 201 sent without waiting for COMMIT to resolve: the rows are still
\* pending when the response goes out.
CommitOk_NotAwaited(r) ==
    /\ pc[r] = "commit"
    /\ tx[client[r]].status = "open"
    /\ Finish(r, Response201(entry[r], lineInserts[r]), "res201")
    /\ UNCHANGED <<handlerVars, tx, storeVars, listed, routeVars>>

\* Line 440 resolved: the pending rows become visible together; lines
\* 442-445 and 456-460.
CommitOk(r) ==
    /\ pc[r] = "commit"
    /\ tx[client[r]].status = "open"
    /\ entries' = entries \cup tx[client[r]].entries
    /\ lines' = lines \cup tx[client[r]].lines
    /\ tx' = [tx EXCEPT ![client[r]] = NoTx]
    /\ Finish(r, Response201(entry[r], lineInserts[r]), "res201")
    /\ UNCHANGED <<handlerVars, accounts, listed, routeVars>>

\* Line 440 rejected: the transaction is over and its rows are dropped.
CommitFail(r) ==
    /\ pc[r] = "commit"
    /\ tx' = [tx EXCEPT ![client[r]] = NoTx]
    /\ Catch(r)
    /\ UNCHANGED <<handlerVars, storeVars, listed, routeVars>>

\* Line 449 resolved: the pending rows are dropped; lines 454-460.
RollbackOk(r) ==
    /\ pc[r] = "rollback"
    /\ tx' = [tx EXCEPT ![client[r]] = NoTx]
    /\ Finish(r, Response500("Failed to create ledger entry"), "res500")
    /\ UNCHANGED <<handlerVars, storeVars, listed, routeVars>>

\* The ROLLBACK of the catch block unguarded: its rejection leaves the
\* handler before the 500 is sent; the finally block still releases.
RollbackFail_Unhandled(r) ==
    /\ pc[r] = "rollback"
    /\ trace' = [trace EXCEPT ![r] = Append(@, "release")]
    /\ inUse' = inUse \ {client[r]}
    /\ pc' = [pc EXCEPT ![r] = "done"]
    /\ UNCHANGED <<handlerVars, res, tx, storeVars, listed, routeVars>>

\* Line 449 rejected (lines 450-452 log it): the transaction stays as it
\* was; lines 454-460.
RollbackFail(r) ==
    /\ pc[r] = "rollback"
    /\ Finish(r, Response500("Failed to create ledger entry"), "res500")
    /\ UNCHANGED <<handlerVars, tx, storeVars, listed, routeVars>>

\* ------------------------------------------------------------ the reader

\* if (...) limit = 50 and if (limit > 200) limit = 200
DefaultLimit == 50
MaxPageSize == 200

\* The bits of a small whole number, and the whole number of a few bits.
Bits(n) == {i \in 0..30 : (n \div (2 ^ i)) % 2 = 1}
RECURSIVE Value(_)
Value(a) == IF a = {} THEN 0 ELSE (2 ^ Msb(a)) + Value(a \ {Msb(a)})

\* a > b on non-negative binary numbers: they differ, and the leading bit
\* in which they differ is a bit of a.
Greater(a, b) == a # b /\ Msb((a \ b) \cup (b \ a)) \in a

RECURSIVE TrimStart(_)
\* The text without its leading blanks.
TrimStart(s) == IF s # <<>> /\ Head(s) = " " THEN TrimStart(Tail(s)) ELSE s

RECURSIVE DigitPrefix(_)
\* The digits a text begins with.
DigitPrefix(s) ==
    IF s # <<>> /\ IsIn(Digits, Head(s)) THEN <<Head(s)>> \o DigitPrefix(Tail(s)) ELSE <<>>

\* parseInt(text, 10): leading blanks are skipped, a sign is read, then the
\* digits as far as they go; NaN when there is no digit.
ParseInt(text) ==
    LET t == TrimStart(text)
        signed == t # <<>> /\ Head(t) \in {"-", "+"}
        digits == DigitPrefix(IF signed THEN Tail(t) ELSE t)
    IN  IF digits = <<>> THEN NaN
        ELSE Fin(signed /\ Head(t) = "-", Round53(DecimalValue(digits, {})))

\* The upper bound one too high: a limit above 200 becomes 201.
EffectiveLimit_NoCap(q) ==
    LET parsed == ParseInt(IF Falsy(q) THEN <<"5","0">> ELSE q.s)
    IN  IF ~IsFinite(parsed) \/ NonPositive(parsed) THEN DefaultLimit
        ELSE IF Greater(parsed.mag, Bits(MaxPageSize)) THEN MaxPageSize + 1
        ELSE Value(parsed.mag)

\* Lines 474-476: the limit of a listing whose query parameter limit is q.
EffectiveLimit(q) ==
    LET parsed == ParseInt(IF Falsy(q) THEN <<"5","0">> ELSE q.s)
        limit == IF ~IsFinite(parsed) \/ NonPositive(parsed)
                 THEN Bits(DefaultLimit) ELSE parsed.mag
    IN  IF Greater(limit, Bits(MaxPageSize)) THEN MaxPageSize ELSE Value(limit)

\* ORDER BY occurred_at DESC LIMIT n: the sequences the statement may
\* return.  Rows with one and the same occurred_at come in any order.
Pages(rows, n) ==
    LET k == IF Cardinality(rows) < n THEN Cardinality(rows) ELSE n IN
      { p \in [1..k -> rows] :
          /\ \A i, j \in 1..k :
               i < j => p[i] # p[j] /\ p[i].occurred_at >= p[j].occurred_at
          /\ \A e \in rows :
               (\A i \in 1..k : p[i] # e) =>
                 \A i \in 1..k : p[i].occurred_at >= e.occurred_at }

\* GET /ledger/entries?limit=q: a page of the committed header rows.
ListPage(q) ==
    /\ \E p \in Pages(entries, EffectiveLimit(q)) :
         /\ page' = Page(q, p)
         /\ listed' = {p[i] : i \in DOMAIN p}
    /\ UNCHANGED <<pc, handlerVars, res, trace, inUse, tx, storeVars, listedAccounts,
                   others, clock, accountVars, marketVars, tasks>>

\* GET /ledger/entries with no limit.
ListEntries == ListPage(Null)

\* Time passes: NOW() returns a later time to every transaction that
\* starts from now on.
MaxClock == 2
Tick ==
    /\ clock < MaxClock
    /\ clock' = clock + 1
    /\ UNCHANGED <<pc, handlerVars, res, trace, inUse, tx, storeVars, listed,
                   listedAccounts, others, page, accountVars, marketVars, tasks>>

\* ------------------------------------------------------ the other routes

\* db.query(...) on the pool runs the statement on a connection that is not
\* checked out; it resolves when that connection holds no failed
\* transaction.
PoolQueryOk == \E c \in Conn \ inUse : tx[c].status = "idle"

\* The ids POST /accounts may give a new account.
NewAccounts == {a9}

\* isNonEmptyString(v): a string with a character that is no blank.
IsNonEmptyString(v) == v.t = "str" /\ \E i \in DOMAIN v.s : v.s[i] # " "

\* The responses of POST /accounts, each with what brought it about.
AccountResponse(status, error, cause) ==
    [status |-> status, error |-> error, cause |-> cause]

\* What POST /accounts leaves alone whatever it answers.
accountFrame == <<pc, handlerVars, res, trace, inUse, tx, entries, lines, listed,
                  listedAccounts, others, clock, page, marketVars, tasks>>

\* Lines 217-219: the name is missing or blank.
PostAccountInvalid(name) ==
    /\ ~IsNonEmptyString(name)
    /\ accountRes' = AccountResponse(400, "name is required", "name")
    /\ UNCHANGED <<accounts, accountCodes, accountFrame>>

\* code TEXT UNIQUE: a row with this code, which is not NULL, exists.
CodeTaken(code) == ~Falsy(code) /\ \E ac \in accountCodes : ac[2] = code.s

\* Lines 222-242: the INSERT resolved.  The new row has the id a and the
\* code `code || null`; rows with a NULL code never collide.
PostAccountOk(a, name, code) ==
    /\ IsNonEmptyString(name)
    /\ a \notin accounts
    /\ PoolQueryOk
    /\ ~CodeTaken(code)
    /\ accounts' = accounts \cup {a}
    /\ accountCodes' = IF Falsy(code) THEN accountCodes
                       ELSE accountCodes \cup {<<a, code.s>>}
    /\ accountRes' = AccountResponse(201, "", "created")
    /\ UNCHANGED accountFrame

\* Lines 243-246: the INSERT was rejected for the UNIQUE constraint on code.
PostAccountConflict(name, code) ==
    /\ IsNonEmptyString(name)
    /\ PoolQueryOk
    /\ CodeTaken(code)
    /\ accountRes' = AccountResponse(500, "Failed to create account", "code")
    /\ UNCHANGED <<accounts, accountCodes, accountFrame>>

\* Lines 243-246: the INSERT was rejected by a failure of the store.
PostAccountFail(name) ==
    /\ IsNonEmptyString(name)
    /\ accountRes' = AccountResponse(500, "Failed to create account", "store")
    /\ UNCHANGED <<accounts, accountCodes, accountFrame>>

\* POST /accounts with a name and no code, resolved.
CreateAccount(a) == PostAccountOk(a, Str(<<"C","a","s","h">>), Null)

\* GET /accounts: the rows of accounts.
ListAccounts ==
    /\ PoolQueryOk
    /\ listedAccounts' = accounts
    /\ UNCHANGED <<pc, handlerVars, res, trace, inUse, tx, storeVars, listed, others,
                   clock, page, accountVars, marketVars, tasks>>

\* The routers beside financials: assets (table assets), ai (departments,
\* ai_agents, ai_agent_tasks) and marketplace (products, listings, orders,
\* order_items).
OtherRouters == {"assets", "ai", "marketplace"}

\* A route of another router that deletes from ledger_entries; the lines
\* go with their entry (ON DELETE CASCADE).
WriteOther_DeletesEntries(t) ==
    /\ PoolQueryOk
    /\ others' = others \cup {t}
    /\ entries' = {}
    /\ lines' = {}
    /\ UNCHANGED <<pc, handlerVars, res, trace, inUse, tx, accounts,
                   listed, listedAccounts, clock, page, accountVars, marketVars, tasks>>

\* A POST or PATCH route of another router: its INSERT or UPDATE names
\* tables of that router only.  Its GET routes change nothing.
WriteOther(t) ==
    /\ PoolQueryOk
    /\ others' = others \cup {t}
    /\ UNCHANGED <<pc, handlerVars, res, trace, inUse, tx, storeVars,
                   listed, listedAccounts, clock, page, accountVars, marketVars, tasks>>

\* ------------------------------------------------- the marketplace router

o1 == <<"o","1">>
p1 == <<"p","1">>
p2 == <<"p","2">>
p3 == <<"p","3">>
\* a product id no row of products has
p9 == <<"p","9">>

cart == <<"c","a","r","t">>
pending == <<"p","e","n","d","i","n","g">>
paid == <<"p","a","i","d">>
fulfilled == <<"f","u","l","f","i","l","l","e","d">>
cancelled == <<"c","a","n","c","e","l","l","e","d">>
refunded == <<"r","e","f","u","n","d","e","d">>
\* order_status_enum
OrderStatuses == {cart, pending, paid, fulfilled, cancelled, refunded}

\* The rows of products.  POST /products inserts a row; no route updates or
\* deletes one.
Products ==
    { [id |-> p1, currency |-> USD, unit_price |-> 2, is_active |-> TRUE],
      [id |-> p2, currency |-> EUR, unit_price |-> 3, is_active |-> TRUE],
      [id |-> p3, currency |-> USD, unit_price |-> 5, is_active |-> FALSE] }

\* order_items.id is a BIGSERIAL: every insert gets an id no other row has.
ItemId(r) == r

\* What the marketplace routes leave alone.
marketFrame == <<body, normalizedLines, entry, lineInserts, storeVars, listed,
                 listedAccounts, others, clock, page, accountVars, tasks>>

\* POST /orders: an empty cart in the currency given, or in USD.
PostOrder(o, currency) ==
    /\ PoolQueryOk
    /\ \A row \in orders : row.id # o
    /\ orders' = orders \cup
         {[id |-> o, currency |-> IF Falsy(currency) THEN USD ELSE currency.s,
           subtotal_amount |-> 0, total_amount |-> 0,
           status |-> cart, completed_at |-> <<>>]}
    /\ UNCHANGED <<pc, client, res, trace, inUse, tx, item, orderItems, marketFrame>>

\* The order rows on which a transaction holds a row lock for an UPDATE it
\* has not committed.
Locked(o) == \E c \in Conn : \E u \in tx[c].updates : u.id = o

\* The CASE that sets completed_at on every status, overwriting it.
Completion_Overwrites(row, status) ==
    IF status \in {paid, fulfilled} THEN <<clock>> ELSE row.completed_at

\* Lines 520-523: completed_at = CASE WHEN $1 IN ('paid','fulfilled') AND
\* completed_at IS NULL THEN NOW() ELSE completed_at END
Completion(row, status) ==
    IF status \in {paid, fulfilled} /\ row.completed_at = <<>>
    THEN <<clock>> ELSE row.completed_at

\* PATCH /orders/:id/status: one UPDATE through the pool, which waits while
\* another transaction holds the row.  A request that is rejected (no
\* status, a status outside order_status_enum, no such order) changes
\* nothing.
PatchOrderStatus(o, status) ==
    /\ IsNonEmptyString(status)
    /\ status.s \in OrderStatuses
    /\ PoolQueryOk
    /\ ~Locked(o)
    /\ \E row \in orders : row.id = o
    /\ orders' = { IF row.id = o
                   THEN [row EXCEPT !.status = status.s,
                                    !.completed_at = Completion(row, status.s)]
                   ELSE row : row \in orders }
    /\ UNCHANGED <<pc, client, res, trace, inUse, tx, item, orderItems, marketFrame>>

\* The responses of POST /orders/:id/items.
ItemResponse(status, error) == [status |-> status, error |-> error]

\* The route is entered with req.params.id and a request body.
ItemArrive(r, id, product_id, quantity) ==
    /\ pc[r] = "idle"
    /\ \A q \in Req : q < r => pc[q] # "idle"
    /\ pc' = [pc EXCEPT ![r] = "itemCheck"]
    /\ item' = [item EXCEPT ![r] = [NoItem EXCEPT !.order_id = id,
                                                  !.product_id = product_id,
                                                  !.quantity = quantity]]
    /\ UNCHANGED <<client, res, trace, inUse, tx, orders, orderItems, marketFrame>>

\* Lines 392, 397: return the 400 response.
ItemReject(r, msg) ==
    /\ res' = [res EXCEPT ![r] = Append(@, ItemResponse(400, msg))]
    /\ trace' = [trace EXCEPT ![r] = Append(@, "res400")]
    /\ pc' = [pc EXCEPT ![r] = "done"]

\* Lines 391-400: check the body; answer 400, or call db.connect().
ItemCheck(r) ==
    /\ pc[r] = "itemCheck"
    /\ LET qty == NumberOf(item[r].quantity) IN
         IF Falsy(item[r].product_id)
         THEN ItemReject(r, "product_id is required")
         ELSE IF ~IsFinite(qty) \/ NonPositive(qty)
         THEN ItemReject(r, "quantity must be a positive number")
         ELSE /\ trace' = [trace EXCEPT ![r] = Append(@, "connect")]
              /\ pc' = [pc EXCEPT ![r] = "itemConnect"]
              /\ UNCHANGED res
    /\ UNCHANGED <<client, inUse, tx, item, orders, orderItems, marketFrame>>

\* The handler's promise is rejected: the handler sends no response.
\* Express 4 drops the rejection, and the request is never answered;
\* Express 5 passes it to its default error handler, which answers 500.
Unhandled(r, events) ==
    /\ pc' = [pc EXCEPT ![r] = "done"]
    /\ \/ /\ trace' = [trace EXCEPT ![r] = @ \o events]
          /\ UNCHANGED res
       \/ /\ trace' = [trace EXCEPT ![r] = @ \o events \o <<"res500">>]
          /\ res' = [res EXCEPT ![r] = Append(@, ItemResponse(500, "Internal Server Error"))]

\* Line 400: db.connect() rejected, outside every try block.
ItemConnectFail(r) ==
    /\ pc[r] = "itemConnect"
    /\ Unhandled(r, <<"connectError">>)
    /\ UNCHANGED <<client, inUse, tx, item, orders, orderItems, marketFrame>>

\* Lines 400-403: db.connect() resolved; the handler calls BEGIN.
ItemConnectOk(r, c) ==
    /\ pc[r] = "itemConnect"
    /\ c \notin inUse
    /\ \A d \in Conn : d < c => (d \in inUse \/ tx[d] # tx[c])
    /\ inUse' = inUse \cup {c}
    /\ client' = [client EXCEPT ![r] = c]
    /\ trace' = [trace EXCEPT ![r] = Append(@, "BEGIN")]
    /\ pc' = [pc EXCEPT ![r] = "itemBegin"]
    /\ UNCHANGED <<res, tx, item, orders, orderItems, marketFrame>>

\* Lines 490-491: a store call of the try block rejected; the handler calls
\* ROLLBACK on its client.
ItemCatch(r) ==
    /\ trace' = [trace EXCEPT ![r] = @ \o <<"error", "ROLLBACK">>]
    /\ pc' = [pc EXCEPT ![r] = "itemRollback"]
    /\ UNCHANGED <<res, inUse>>

\* Lines 411, 422, 428: a precondition failed; the handler calls ROLLBACK
\* and keeps the response it will return.
ItemRefuse(r, why) ==
    /\ item' = [item EXCEPT ![r].failure = why]
    /\ trace' = [trace EXCEPT ![r] = Append(@, "ROLLBACK")]
    /\ pc' = [pc EXCEPT ![r] = "itemRefuse"]

\* Lines 487-489 or 493, then 494-496: send the response, then release
\* the client in the finally block.
ItemFinish(r, response, event) ==
    /\ res' = [res EXCEPT ![r] = Append(@, response)]
    /\ trace' = [trace EXCEPT ![r] = @ \o <<event, "release">>]
    /\ inUse' = inUse \ {client[r]}
    /\ pc' = [pc EXCEPT ![r] = "done"]

\* Line 403 resolved; the handler selects the product.
ItemBeginOk(r) ==
    /\ pc[r] = "itemBegin"
    /\ tx[client[r]].status = "idle"
    /\ tx' = [tx EXCEPT ![client[r]].status = "open", ![client[r]].started = clock]
    /\ trace' = [trace EXCEPT ![r] = Append(@, "SELECT_PRODUCT")]
    /\ pc' = [pc EXCEPT ![r] = "itemProduct"]
    /\ UNCHANGED <<client, res, inUse, item, orders, orderItems, marketFrame>>

\* Line 403 rejected.
ItemBeginFail(r) ==
    /\ pc[r] = "itemBegin"
    /\ ItemCatch(r)
    /\ UNCHANGED <<client, tx, item, orders, orderItems, marketFrame>>

\* Lines 406-417 resolved: no active product has the id (ROLLBACK, then
\* 404), or the product is kept and the handler selects the order.
ItemProductOk(r) ==
    /\ pc[r] = "itemProduct"
    /\ tx[client[r]].status = "open"
    /\ LET rows == {p \in Products : p.id = item[r].product_id.s /\ p.is_active} IN
         IF rows = {}
         THEN ItemRefuse(r, "product")
         ELSE /\ item' = [item EXCEPT ![r].product = CHOOSE p \in rows : TRUE]
              /\ trace' = [trace EXCEPT ![r] = Append(@, "SELECT_ORDER")]
              /\ pc' = [pc EXCEPT ![r] = "itemOrder"]
    /\ UNCHANGED <<client, res, inUse, tx, orders, orderItems, marketFrame>>

\* Lines 406-409 rejected.
ItemProductFail(r) ==
    /\ pc[r] = "itemProduct"
    /\ tx' = [tx EXCEPT ![client[r]] = Failed(@)]
    /\ ItemCatch(r)
    /\ UNCHANGED <<client, item, orders, orderItems, marketFrame>>

\* The currency test left out.
ItemOrderOk_NoCurrencyCheck(r) ==
    /\ pc[r] = "itemOrder"
    /\ tx[client[r]].status = "open"
    /\ LET rows == {o \in orders : o.id = item[r].order_id} IN
         IF rows = {}
         THEN ItemRefuse(r, "order")
         ELSE /\ trace' = [trace EXCEPT ![r] = Append(@, "INSERT_ITEM")]
              /\ pc' = [pc EXCEPT ![r] = "itemInsert"]
              /\ UNCHANGED item
    /\ UNCHANGED <<client, res, inUse, tx, orders, orderItems, marketFrame>>

\* Lines 417-436 resolved: there is no such order (ROLLBACK, then 404), or
\* its currency is not the product's (ROLLBACK, then 400), or the handler
\* calls the insert of the item.
ItemOrderOk(r) ==
    /\ pc[r] = "itemOrder"
    /\ tx[client[r]].status = "open"
    /\ LET rows == {o \in orders : o.id = item[r].order_id} IN
         IF rows = {}
         THEN ItemRefuse(r, "order")
         ELSE IF (CHOOSE o \in rows : TRUE).currency # item[r].product.currency
         THEN ItemRefuse(r, "currency")
         ELSE /\ trace' = [trace EXCEPT ![r] = Append(@, "INSERT_ITEM")]
              /\ pc' = [pc EXCEPT ![r] = "itemInsert"]
              /\ UNCHANGED item
    /\ UNCHANGED <<client, res, inUse, tx, orders, orderItems, marketFrame>>

\* Lines 417-420 rejected.
ItemOrderFail(r) ==
    /\ pc[r] = "itemOrder"
    /\ tx' = [tx EXCEPT ![client[r]] = Failed(@)]
    /\ ItemCatch(r)
    /\ UNCHANGED <<client, item, orders, orderItems, marketFrame>>

\* Lines 432-462 resolved: the item row is written, pending until COMMIT
\* (its order_id references a row of orders); the handler selects the sum.
ItemInsertOk(r) ==
    /\ pc[r] = "itemInsert"
    /\ tx[client[r]].status = "open"
    /\ \E o \in orders : o.id = item[r].order_id
    /\ LET qty == Value(NumberOf(item[r].quantity).mag)
           unitPrice == item[r].product.unit_price
           row == [id |-> ItemId(r),
                   order_id |-> item[r].order_id,
                   product_id |-> item[r].product_id.s,
                   quantity |-> qty,
                   unit_price |-> unitPrice,
                   total_price |-> unitPrice * qty]
       IN  tx' = [tx EXCEPT ![client[r]].items = @ \cup {row}]
    /\ trace' = [trace EXCEPT ![r] = Append(@, "SELECT_SUM")]
    /\ pc' = [pc EXCEPT ![r] = "itemSum"]
    /\ UNCHANGED <<client, res, inUse, item, orders, orderItems, marketFrame>>

\* Lines 436-459 rejected.
ItemInsertFail(r) ==
    /\ pc[r] = "itemInsert"
    /\ tx' = [tx EXCEPT ![client[r]] = Failed(@)]
    /\ ItemCatch(r)
    /\ UNCHANGED <<client, item, orders, orderItems, marketFrame>>

RECURSIVE SumPrices(_)
\* SUM(total_price) over rows of order_items, 0 over none.
SumPrices(rows) ==
    IF rows = {} THEN 0
    ELSE LET x == CHOOSE x \in rows : TRUE
         IN  x.total_price + SumPrices(rows \ {x})

\* The rows of order_items a statement on connection c sees: the committed
\* rows and the rows its own transaction has inserted.
VisibleItems(c) == orderItems \cup tx[c].items

\* Lines 462-472 resolved: subtotal is the sum over the order's items the
\* transaction sees; the handler calls the UPDATE of the order.
ItemSumOk(r) ==
    /\ pc[r] = "itemSum"
    /\ tx[client[r]].status = "open"
    /\ item' = [item EXCEPT ![r].subtotal =
                  SumPrices({i \in VisibleItems(client[r]) : i.order_id = item[r].order_id})]
    /\ trace' = [trace EXCEPT ![r] = Append(@, "UPDATE_ORDER")]
    /\ pc' = [pc EXCEPT ![r] = "itemUpdate"]
    /\ UNCHANGED <<client, res, inUse, tx, orders, orderItems, marketFrame>>

\* Lines 462-469 rejected.
ItemSumFail(r) ==
    /\ pc[r] = "itemSum"
    /\ tx' = [tx EXCEPT ![client[r]] = Failed(@)]
    /\ ItemCatch(r)
    /\ UNCHANGED <<client, item, orders, orderItems, marketFrame>>

\* Lines 472-485 resolved: the UPDATE, which waits while another
\* transaction holds the order row, sets both amounts to subtotal, pending
\* until COMMIT; the handler calls COMMIT.
ItemUpdateOk(r) ==
    /\ pc[r] = "itemUpdate"
    /\ tx[client[r]].status = "open"
    /\ ~Locked(item[r].order_id)
    /\ tx' = [tx EXCEPT ![client[r]].updates =
                @ \cup {[id |-> item[r].order_id, subtotal |-> item[r].subtotal]}]
    /\ trace' = [trace EXCEPT ![r] = Append(@, "COMMIT")]
    /\ pc' = [pc EXCEPT ![r] = "itemCommit"]
    /\ UNCHANGED <<client, res, inUse, item, orders, orderItems, marketFrame>>

\* Lines 472-483 rejected.
ItemUpdateFail(r) ==
    /\ pc[r] = "itemUpdate"
    /\ tx' = [tx EXCEPT ![client[r]] = Failed(@)]
    /\ ItemCatch(r)
    /\ UNCHANGED <<client, item, orders, orderItems, marketFrame>>

\* The order rows once the pending updates of a transaction are committed:
\* an update replaces the two amounts of its row and nothing else.
Updated(rows, updates) ==
    { IF \E u \in updates : u.id = row.id
      THEN LET u == CHOOSE u \in updates : u.id = row.id
           IN  [row EXCEPT !.subtotal_amount = u.subtotal, !.total_amount = u.subtotal]
      ELSE row : row \in rows }

\* Line 485 resolved: the item and the amounts become visible together;
\* lines 487-489 and 494-496.
ItemCommitOk(r) ==
    /\ pc[r] = "itemCommit"
    /\ tx[client[r]].status = "open"
    /\ orderItems' = orderItems \cup tx[client[r]].items
    /\ orders' = Updated(orders, tx[client[r]].updates)
    /\ tx' = [tx EXCEPT ![client[r]] = NoTx]
    /\ ItemFinish(r, ItemResponse(200, ""), "res200")
    /\ UNCHANGED <<client, item, marketFrame>>

\* Line 485 rejected: the transaction is over and its rows are dropped.
ItemCommitFail(r) ==
    /\ pc[r] = "itemCommit"
    /\ tx' = [tx EXCEPT ![client[r]] = NoTx]
    /\ ItemCatch(r)
    /\ UNCHANGED <<client, item, orders, orderItems, marketFrame>>

\* The response lines 412, 423 and 429 return for a failed precondition.
Refusal(why) ==
    IF why = "product" THEN ItemResponse(404, "Product not found or inactive")
    ELSE IF why = "order" THEN ItemResponse(404, "Order not found")
    ELSE ItemResponse(400, "Order and product currency must match")

\* Lines 411-412, 422-423, 428-429: the ROLLBACK resolved; the response is
\* returned and the finally block releases the client.
ItemRefuseOk(r) ==
    /\ pc[r] = "itemRefuse"
    /\ tx' = [tx EXCEPT ![client[r]] = NoTx]
    /\ ItemFinish(r, Refusal(item[r].failure),
                  IF item[r].failure = "currency" THEN "res400" ELSE "res404")
    /\ UNCHANGED <<client, item, orders, orderItems, marketFrame>>

\* Lines 411, 422, 428: the ROLLBACK rejected, inside the try block: the
\* catch block calls ROLLBACK again.
ItemRefuseFail(r) ==
    /\ pc[r] = "itemRefuse"
    /\ ItemCatch(r)
    /\ UNCHANGED <<client, tx, item, orders, orderItems, marketFrame>>

\* Line 491 resolved; lines 492-496.
ItemRollbackOk(r) ==
    /\ pc[r] = "itemRollback"
    /\ tx' = [tx EXCEPT ![client[r]] = NoTx]
    /\ ItemFinish(r, ItemResponse(500, "Failed to add item to order"), "res500")
    /\ UNCHANGED <<client, item, orders, orderItems, marketFrame>>

\* Line 491 rejected, inside the catch block: the finally block releases
\* the client and the rejection leaves the handler.
ItemRollbackFail(r) ==
    /\ pc[r] = "itemRollback"
    /\ inUse' = inUse \ {client[r]}
    /\ Unhandled(r, <<"release">>)
    /\ UNCHANGED <<client, tx, item, orders, orderItems, marketFrame>>

ItemStep(r) ==
    \/ ItemCheck(r)
    \/ ItemConnectFail(r)
    \/ \E c \in Conn : ItemConnectOk(r, c)
    \/ ItemBeginOk(r)
    \/ ItemBeginFail(r)
    \/ ItemProductOk(r)
    \/ ItemProductFail(r)
    \/ ItemOrderOk(r)
    \/ ItemOrderFail(r)
    \/ ItemInsertOk(r)
    \/ ItemInsertFail(r)
    \/ ItemSumOk(r)
    \/ ItemSumFail(r)
    \/ ItemUpdateOk(r)
    \/ ItemUpdateFail(r)
    \/ ItemCommitOk(r)
    \/ ItemCommitFail(r)
    \/ ItemRefuseOk(r)
    \/ ItemRefuseFail(r)
    \/ ItemRollbackOk(r)
    \/ ItemRollbackFail(r)

\* --------------------------------------------------------- the AI router

t1 == <<"t","1">>
t2 == <<"t","2">>
completed == <<"c","o","m","p","l","e","t","e","d">>

RECURSIVE TrimEnd(_)
TrimEnd(s) ==
    IF s # <<>> /\ s[Len(s)] = " " THEN TrimEnd(SubSeq(s, 1, Len(s) - 1)) ELSE s

\* title.trim()
Trim(s) == TrimEnd(TrimStart(s))

\* What the task routes leave alone.
taskFrame == <<pc, handlerVars, res, trace, inUse, tx, storeVars, listed,
               listedAccounts, others, clock, page, accountVars, marketVars>>

\* POST /ai/tasks with a title: the row gets the status given, or 'pending',
\* and no completed_at.  A request without a title changes nothing.
CreateTask(t, title, status) ==
    /\ IsNonEmptyString(title)
    /\ PoolQueryOk
    /\ \A row \in tasks : row.id # t
    /\ tasks' = tasks \cup
         {[id |-> t, title |-> Trim(title.s),
           status |-> IF Falsy(status) THEN pending ELSE status.s,
           completed_at |-> <<>>]}
    /\ UNCHANGED taskFrame

\* The CASE reading the status the request supplies instead of
\* COALESCE($3, status).
PatchedTask_SuppliedOnly(row, title, status) ==
    [row EXCEPT !.title = IF Falsy(title) THEN @ ELSE title.s,
                !.status = IF Falsy(status) THEN @ ELSE status.s,
                !.completed_at = IF ~Falsy(status) /\ status.s = completed /\ @ = <<>>
                                 THEN <<clock>> ELSE @]

\* Lines 377-390: the row the UPDATE writes.  title || null and
\* status || null make a missing or empty value NULL, and COALESCE keeps
\* the stored value for NULL.
PatchedTask(row, title, status) ==
    LET kept == IF Falsy(status) THEN row.status ELSE status.s IN
    [row EXCEPT !.title = IF Falsy(title) THEN @ ELSE title.s,
                !.status = kept,
                !.completed_at = IF kept = completed /\ @ = <<>> THEN <<clock>> ELSE @]

\* PATCH /ai/tasks/:id on a task that exists.  For another id the UPDATE
\* touches no row (404).
PatchTask(t, title, status) ==
    /\ PoolQueryOk
    /\ \E row \in tasks : row.id = t
    /\ tasks' = { IF row.id = t THEN PatchedTask(row, title, status) ELSE row :
                  row \in tasks }
    /\ UNCHANGED taskFrame

\* ----------------------------------------------------------- the inputs

\* Posting requests of the concurrent runs: a balanced pair of lines whose
\* directions and currencies differ in case, the same against an account
\* that does not exist, an unbalanced pair, and a single line.
PostBodies ==
    { ArrayLines(<<Line(Str(a1), Str(debit), Str(<<"1">>), Str(USD)),
                   Line(Str(a2), Str(<<"C","R","E","D","I","T">>), Str(<<"1">>),
                        Str(<<"u","s","d">>))>>),
      ArrayLines(<<Line(Str(a1), Str(debit), Str(<<"1">>), Str(USD)),
                   Line(Str(a9), Str(credit), Str(<<"1">>), Str(USD))>>),
      ArrayLines(<<Line(Str(a1), Str(debit), Str(<<"2">>), Str(USD)),
                   Line(Str(a2), Str(credit), Str(<<"1">>), Str(USD))>>),
      ArrayLines(<<Line(Str(a1), Str(debit), Str(<<"1">>), Str(USD))>>) }

Post(r) ==
    /\ pc[r] = "idle"
    /\ \A q \in Req : q < r => pc[q] # "idle"
    /\ \E b \in PostBodies : Arrive(r, b)

Step(r) ==
    \/ Validate(r)
    \/ ConnectFail(r)
    \/ \E c \in Conn : ConnectOk(r, c)
    \/ BeginOk(r)
    \/ BeginFail(r)
    \/ InsertEntryOk(r)
    \/ InsertEntryFail(r)
    \/ InsertLineOk(r)
    \/ InsertLineFail(r)
    \/ CommitOk(r)
    \/ CommitFail(r)
    \/ RollbackOk(r)
    \/ RollbackFail(r)

Next ==
    \/ \E r \in Req : Post(r)
    \/ \E r \in Req : Step(r)
    \/ ListEntries

Spec == Init /\ [][Next]_vars

\* One posting request with any body of the input space.  Arrays of up to
\* two lines draw every field from its whole range (absent, malformed and
\* well-formed values, strings and arrays); longer arrays, up to MaxLines,
\* vary the direction and the amount of well-formed lines.
FieldLines ==
    { Line(a, d, m, c) :
        a \in {Null, Str(a1)},
        d \in {Null, Str(debit), Str(<<"C","R","E","D","I","T">>), Str(<<"h","o","l","d">>),
               Arr(debit)},
        m \in {Null, Str(<<"a","b","c">>), Str(<<"0">>), Str(<<"-","1">>), Str(<<"1">>), Tiny},
        c \in {Null, Str(USD), Str(<<"u","s","d">>), Str(EUR), Str(<<"x","1">>), Arr(<<>>)} }

AmountLines ==
    { Line(Str(a1), d, m, Str(USD)) :
        d \in {Str(debit), Str(<<"C","R","E","D","I","T">>)},
        m \in {Str(<<"0">>), Str(<<"1">>), Str(Big), Str(BigPlus1)} }

InputBodies ==
    {MissingLines, NotArrayLines}
    \cup {ArrayLines(ls) : ls \in UNION {[1..n -> FieldLines] : n \in 0..2}}
    \cup {ArrayLines(ls) : ls \in UNION {[1..n -> AmountLines] : n \in 3..MaxLines}}

PostInput == pc[1] = "idle" /\ \E b \in InputBodies : Arrive(1, b)

NextInput ==
    \/ PostInput
    \/ \E r \in Req : Step(r)
    \/ ListEntries

SpecInput == Init /\ [][NextInput]_vars

\* Two postings against disjoint accounts, with a store that does not
\* fail: the first posts against account a1 only, the second against a2
\* only, each a balanced pair or a balanced triple.
Pair == {1, 2}
DisjointAccount(r) == IF r = 1 THEN a1 ELSE a2

DisjointBodies(r) ==
    LET a == Str(DisjointAccount(r)) IN
      { ArrayLines(<<Line(a, Str(debit), Str(<<"1">>), Str(USD)),
                     Line(a, Str(credit), Str(<<"1">>), Str(USD))>>),
        ArrayLines(<<Line(a, Str(debit), Str(<<"2">>), Str(USD)),
                     Line(a, Str(credit), Str(<<"1">>), Str(USD)),
                     Line(a, Str(credit), Str(<<"1">>), Str(USD))>>) }

PostDisjoint(r) ==
    /\ pc[r] = "idle"
    /\ \E b \in DisjointBodies(r) : Arrive(r, b)

\* The continuations of a handler whose store calls all resolve.
StoreStepOk(r) ==
    \/ \E c \in Conn : ConnectOk(r, c)
    \/ BeginOk(r)
    \/ InsertEntryOk(r)
    \/ InsertLineOk(r)
    \/ CommitOk(r)

NextDisjoint ==
    \/ \E r \in Pair : PostDisjoint(r)
    \/ \E r \in Req : Validate(r)
    \/ \E r \in Req : StoreStepOk(r)
    \/ ListEntries

\* A store call that does not fail settles, and the handler's continuation
\* then runs.
SpecDisjoint ==
    Init /\ [][NextDisjoint]_vars /\ \A r \in Req : WF_vars(StoreStepOk(r))

\* Postings that succeed, over time, and listings with every kind of limit.
LimitQueries ==
    { Null, Str(<<>>), Str(<<"a","b","c">>), Str(<<"0">>), Str(<<"-","1">>),
      Str(<<"1">>), Str(<<" ","2">>), Str(<<"1","x">>),
      Str(<<"2","0","0">>), Str(<<"2","0","1">>), Arr(<<"1">>) }

\* A posting of one balanced pair of lines.
PostList(r) ==
    Arrive(r, ArrayLines(<<Line(Str(a1), Str(debit), Str(<<"1">>), Str(USD)),
                           Line(Str(a2), Str(credit), Str(<<"1">>), Str(USD))>>))

NextList ==
    \/ \E r \in Pair : PostList(r)
    \/ \E r \in Req : Validate(r)
    \/ \E r \in Req : StoreStepOk(r)
    \/ Tick
    \/ \E q \in LimitQueries : ListPage(q)

SpecList == Init /\ [][NextList]_vars

\* The accounts routes with every kind of name and code.
a8 == <<"a","8">>
FreshAccounts == {a8, a9}
AccountNames == {Null, Str(<<" ">>), Str(<<"C","a","s","h">>)}
AccountCodes == {Null, Str(<<>>), Str(<<"1","0","0","0">>), Str(<<"2","0","0","0">>)}

NextAccounts ==
    \/ \E name \in AccountNames : PostAccountInvalid(name)
    \/ \E a \in FreshAccounts, name \in AccountNames, code \in AccountCodes :
         PostAccountOk(a, name, code)
    \/ \E name \in AccountNames, code \in AccountCodes : PostAccountConflict(name, code)
    \/ \E name \in AccountNames : PostAccountFail(name)
    \/ ListAccounts

SpecAccounts == Init /\ [][NextAccounts]_vars

\* Two add-item requests on the order o1, which is created at any moment
\* in USD or in EUR, with a store whose every call may fail.
ItemInputs ==
    { <<Str(p1), Str(<<"1">>)>>, <<Str(p1), Str(<<"2">>)>>, <<Str(p2), Str(<<"1">>)>>,
      <<Str(p3), Str(<<"1">>)>>, <<Str(p9), Str(<<"1">>)>>, <<Null, Str(<<"1">>)>>,
      <<Str(p1), Str(<<"0">>)>> }

PostItem(r) == \E in \in ItemInputs : ItemArrive(r, o1, in[1], in[2])

NextMarket ==
    \/ \E c \in {Null, Str(EUR)} : PostOrder(o1, c)
    \/ \E r \in Pair : PostItem(r)
    \/ \E r \in Req : ItemStep(r)

SpecMarket == Init /\ [][NextMarket]_vars

\* The status of the order o1 updated at any moment, with one add-item
\* request on it and time passing.
OrderStatusInputs ==
    {Null, Str(paid), Str(fulfilled), Str(cancelled), Str(pending),
     Str(<<"P","A","I","D">>)}

NextOrders ==
    \/ \E c \in {Null, Str(EUR)} : PostOrder(o1, c)
    \/ \E s \in OrderStatusInputs : PatchOrderStatus(o1, s)
    \/ Tick
    \/ ItemArrive(1, o1, Str(p1), Str(<<"1">>))
    \/ ItemStep(1)

SpecOrders == Init /\ [][NextOrders]_vars

\* Two tasks created and updated at any moment, with time passing.
TaskTitles == {Null, Str(<<" ","A">>), Str(<<"B">>)}
TaskStatuses == {Null, Str(<<>>), Str(pending), Str(completed),
                 Str(<<"C","o","m","p","l","e","t","e","d">>)}

NextTasks ==
    \/ \E t \in {t1, t2}, title \in TaskTitles, status \in TaskStatuses :
         /\ t = t2 => \E row \in tasks : row.id = t1
         /\ CreateTask(t, title, status)
    \/ \E t \in {t1, t2}, title \in TaskTitles, status \in TaskStatuses :
         PatchTask(t, title, status)
    \/ Tick

SpecTasks == Init /\ [][NextTasks]_vars

\* Every route of the program, with two posting requests.
NextRoutes ==
    \/ \E r \in Pair : Post(r)
    \/ \E r \in Req : Step(r)
    \/ ListEntries
    \/ \E a \in NewAccounts : CreateAccount(a)
    \/ ListAccounts
    \/ \E t \in OtherRouters : WriteOther(t)

SpecRoutes == Init /\ [][NextRoutes]_vars

\* ---------------------------------------------------- what readers see

\* The committed lines of an entry.
EntryLines(id) == {l \in lines : l.entry_id = id}

RECURSIVE ExactSum(_)
\* The exact sum of the amounts of a set of line rows, in units of
\* 10^-NumericScale.
ExactSum(rows) ==
    IF rows = {} THEN {}
    ELSE LET x == CHOOSE x \in rows : TRUE
         IN  BAdd(BAdd(Scale10(x.amount.int, NumericScale), x.amount.frac),
                  ExactSum(rows \ {x}))

\* The exact value of a submitted amount: of a JSON number, or of a digit
\* string.
ExactValue(v) == IF v.t = "num" THEN v.n ELSE DecimalValue(v.s, {})

RECURSIVE DecimalSum(_, _)
\* The exact sum of the decimal amounts a body submits in one direction.
DecimalSum(ls, dir) ==
    IF ls = <<>> THEN {}
    ELSE IF ToLowerCase(Head(ls).direction.s) = dir
         THEN BAdd(ExactValue(Head(ls).amount), DecimalSum(Tail(ls), dir))
         ELSE DecimalSum(Tail(ls), dir)

\* The request's posting was committed.
Committed(r) == entry[r] \in entries

\* ---------------------------------------------------------------- claims

\* C1: every committed entry has, for every currency among its lines, a
\* debit sum equal to its credit sum exactly, and no request whose decimal
\* debit and credit sums differ is committed.
C1_BalanceInvariant ==
    /\ \A e \in entries :
         \A ccy \in {l.currency : l \in EntryLines(e.id)} :
           ExactSum({l \in EntryLines(e.id) : l.currency = ccy /\ l.direction = debit})
             = ExactSum({l \in EntryLines(e.id) : l.currency = ccy /\ l.direction = credit})
    /\ \A r \in Req :
         Committed(r) =>
           DecimalSum(body[r].lines, debit) = DecimalSum(body[r].lines, credit)

\* The handler has run its validation.
Validated(r) == pc[r] \notin {"idle", "validating"}

\* The request was answered 400 and nothing else happened.
RejectedCleanly(r) ==
    /\ pc[r] = "done"
    /\ Len(res[r]) = 1
    /\ res[r][1].status = 400
    /\ client[r] = NoClient
    /\ entry[r] = NoEntry
    /\ lineInserts[r] = <<>>

\* No row is committed or pending anywhere.
NothingWritten ==
    /\ entries = {}
    /\ lines = {}
    /\ \A c \in Conn : tx[c] = NoTx

\* The events of a trace that are calls on the store.
StoreCalls == {"connect", "BEGIN", "INSERT_ENTRY", "INSERT_LINE", "COMMIT", "ROLLBACK"}
Has(t, ev) == \E i \in DOMAIN t : t[i] = ev

\* C4: a request whose lines are missing, are no array, or are fewer than
\* two is rejected with a 400 whatever the lines hold, and nothing is
\* written.
C4_TooFewLinesRejected ==
    \A r \in Req :
      (Validated(r) /\ (body[r].t # "array" \/ Len(body[r].lines) <= 1))
        => RejectedCleanly(r) /\ NothingWritten

\* A single well-formed line was rejected.
C4_Witness ==
    \E r \in Req :
      /\ RejectedCleanly(r)
      /\ body[r].t = "array"
      /\ Len(body[r].lines) = 1
      /\ ~MissingField(body[r].lines[1])
      /\ NumberOf(body[r].lines[1].amount) = Fin(FALSE, {0})

\* The submitted amount is null, or is no finite Number, or is not above
\* zero.
NotPositive(amount) ==
    LET n == NumberOf(amount)
    IN  amount.t = "null" \/ n.k # "fin" \/ n.neg \/ n.mag = {}

C6_ValidationPrecedesStorage ==
    \A r \in Req :
      /\ (Len(res[r]) > 0 /\ res[r][1].status = 400)
           => /\ RejectedCleanly(r)
              /\ \A ev \in StoreCalls : ~Has(trace[r], ev)
              /\ NothingWritten
      /\ (\E ev \in StoreCalls : Has(trace[r], ev))
           => /\ Validation(body[r]) = Passed(normalizedLines[r])
              /\ trace[r][1] = "connect"

\* A body that fails only the last check, the balance of the totals, was
\* answered 400 with no store call.
C6_Witness ==
    \E r \in Req :
      /\ RejectedCleanly(r)
      /\ res[r][1].error = "Debits and credits must balance"
      /\ trace[r] = <<"res400">>

Range(t) == {t[i] : i \in DOMAIN t}
Count(t, ev) == Cardinality({i \in DOMAIN t : t[i] = ev})

\* C2: once a store call of a posting has failed (BEGIN, the header
\* insert, any line insert, COMMIT), neither its header nor any of its
\* lines is visible, then or later.
C2_FailedPostingInvisible ==
    \A r \in Req :
      Has(trace[r], "error") =>
        /\ \A e \in entries : e # entry[r]
        /\ \A l \in lines : l \notin Range(lineInserts[r])
        /\ \A l \in lines : l.entry_id # entry[r].id

\* A posting failed at COMMIT, after its header and all its lines had been
\* inserted, and it has finished.
C2_Witness ==
    \E r \in Req :
      /\ pc[r] = "done"
      /\ entry[r] # NoEntry
      /\ Len(lineInserts[r]) = Len(normalizedLines[r])
      /\ \E i \in DOMAIN trace[r] : trace[r][i] = "COMMIT" /\ trace[r][i + 1] = "error"

\* An entry a reader finds comes with every line of its request.
Complete(e) ==
    \E r \in Req :
      /\ entry[r] = e
      /\ Len(lineInserts[r]) = Len(normalizedLines[r])
      /\ EntryLines(e.id) = Range(lineInserts[r])
      /\ Cardinality(EntryLines(e.id)) = Len(body[r].lines)

\* C3: whatever postings are in progress, a reader sees of each entry
\* either the header with all its lines or nothing: every visible header,
\* and every header a listing returned, has all its lines visible, and
\* every visible line has its header visible.
C3_NoPartialEntryVisible ==
    /\ \A e \in entries \cup listed : Complete(e)
    /\ \A l \in lines : \E e \in entries : e.id = l.entry_id

\* A listing returned an entry while another posting had inserted some but
\* not all of its lines.
C3_Witness ==
    \E r \in Req :
      /\ pc[r] = "insertLine"
      /\ lineInserts[r] # <<>>
      /\ listed # {}

\* C7: a failed store call of a posting is followed at once by ROLLBACK on
\* the handler's client, and the 500 is sent only after that ROLLBACK.
C7_RollbackBeforeReport ==
    \A r \in Req :
      \A i \in DOMAIN trace[r] :
        trace[r][i] = "error" =>
          /\ i < Len(trace[r])
          /\ trace[r][i + 1] = "ROLLBACK"
          /\ \A j \in DOMAIN trace[r] : trace[r][j] = "res500" => j > i + 1

\* A line insert failed and the request was answered 500.
C7_Witness ==
    \E r \in Req :
      /\ pc[r] = "done"
      /\ res[r][1].status = 500
      /\ \E i \in DOMAIN trace[r] : trace[r][i] = "INSERT_LINE" /\ trace[r][i + 1] = "error"

\* C8: a connection in the pool has no transaction in progress: every
\* transaction a posting began was ended before its connection was
\* released.
C8_NoOpenTransaction ==
    \A c \in Conn \ inUse : tx[c].status = "idle"

\* The handler holds a connection.
Acquired(r) == client[r] # NoClient

\* C9: a handler releases its connection exactly once when it finishes
\* and never before, releases nothing when db.connect() failed, and the
\* connections in use are exactly those of the handlers still running.
C9_ReleasedExactlyOnce ==
    /\ \A r \in Req :
         /\ Count(trace[r], "release") =
              (IF pc[r] = "done" /\ Acquired(r) THEN 1 ELSE 0)
         /\ Has(trace[r], "connectError") => ~Acquired(r)
    /\ inUse = {client[r] : r \in {q \in Req : Acquired(q) /\ pc[q] # "done"}}
    /\ (\A r \in Req : pc[r] \in {"idle", "done"}) => inUse = {}

\* Every request has finished: one could not connect, another released its
\* connection after its ROLLBACK failed to end a failed transaction.
C9_Witness ==
    /\ \A r \in Req : pc[r] = "done"
    /\ \E r \in Req : Has(trace[r], "connectError")
    /\ \E r \in Req : Has(trace[r], "release") /\ tx[client[r]].status = "aborted"

\* The state of the posting state machine a request is in.
Phase(r) ==
    CASE pc[r] = "idle" -> "None"
      [] pc[r] = "validating" -> "Validating"
      [] pc[r] = "done" ->
           (CASE res[r][Len(res[r])].status = 400 -> "Rejected"
              [] res[r][Len(res[r])].status = 201 -> "Committed"
              [] OTHER -> "Aborted")
      [] OTHER -> "Posting"

PhaseSteps ==
    { <<"None", "Validating">>,
      <<"Validating", "Posting">>, <<"Validating", "Rejected">>,
      <<"Posting", "Committed">>, <<"Posting", "Aborted">> }

\* The events that send a response.
ResEvents == {"res400", "res500", "res201"}

Succeeded(r) == \E i \in DOMAIN res[r] : res[r][i].status = 201

\* C11: a 201 is sent only after COMMIT resolved, with no failure before
\* it; it carries the committed header and, for each submitted line in
\* submission order, one committed line row of that entry, and no other.
C11_SuccessIsDurable ==
    \A r \in Req :
      Succeeded(r) =>
        LET rsp == res[r][1] IN
          /\ Len(res[r]) = 1
          /\ ~Has(trace[r], "error")
          /\ \A k \in DOMAIN trace[r] :
               trace[r][k] = "res201" => k > 1 /\ trace[r][k - 1] = "COMMIT"
          /\ rsp.entry \in entries
          /\ Len(rsp.lines) = Len(body[r].lines)
          /\ \A i \in DOMAIN rsp.lines :
               /\ rsp.lines[i] \in lines
               /\ rsp.lines[i].entry_id = rsp.entry.id
               /\ rsp.lines[i].account_id = body[r].lines[i].account_id.s
               /\ rsp.lines[i].direction = ToLowerCase(body[r].lines[i].direction.s)
          /\ \A i, j \in DOMAIN rsp.lines : i # j => rsp.lines[i].id # rsp.lines[j].id
          /\ EntryLines(rsp.entry.id) = Range(rsp.lines)

\* A request was answered 201 with its two lines while another posting was
\* still holding pending rows.
C11_Witness ==
    \E r, q \in Req :
      /\ Succeeded(r)
      /\ Len(res[r][1].lines) = 2
      /\ pc[q] = "commit"

\* The posting failed at the insert of a line whose account_id has no row
\* in accounts, after its header (and the lines before that one) had been
\* inserted.
FailedOnMissingAccount(r) ==
    /\ pc[r] = "done"
    /\ entry[r] # NoEntry
    /\ Len(lineInserts[r]) < Len(normalizedLines[r])
    /\ NextLine(r).account_id \notin accounts
    /\ \E i \in DOMAIN trace[r] : trace[r][i] = "INSERT_LINE" /\ trace[r][i + 1] = "error"

\* What the handler answers when a store call failed on an I/O error.
IOFailureResponse == Response500("Failed to create ledger entry")

\* C12: a posting with a line on an account that does not exist, at any
\* position, is answered with a failure that names the missing account and
\* differs from the answer to an I/O failure, after a ROLLBACK, and none of
\* its rows is persisted.
C12_MissingAccountNotFound ==
    \A r \in Req :
      FailedOnMissingAccount(r) =>
        /\ res[r][1] # IOFailureResponse
        /\ res[r][1].details = <<NextLine(r).account_id>>
        /\ Has(trace[r], "ROLLBACK")
        /\ entry[r] \notin entries
        /\ \A l \in lines : l.entry_id # entry[r].id

\* The currencies the lines of a body carry, uppercased.
BodyCurrencies(b) == {ToUpperCase(b.lines[i].currency.s) : i \in DOMAIN b.lines}

\* C13: a request whose lines do not all carry the same currency after
\* uppercasing is answered 400 with no call on the store, and every
\* committed entry has lines of exactly one currency.
C13_SingleCurrency ==
    /\ \A r \in Req :
         (/\ Validated(r)
          /\ body[r].t = "array"
          /\ Cardinality(BodyCurrencies(body[r])) > 1)
           => /\ RejectedCleanly(r)
              /\ \A ev \in StoreCalls : ~Has(trace[r], ev)
    /\ \A e \in entries :
         Cardinality({l.currency : l \in EntryLines(e.id)}) = 1

\* The request was answered 400 because its totals differ.
RejectedUnbalanced(r) ==
    /\ pc[r] = "done"
    /\ res[r][1].status = 400
    /\ res[r][1].error = "Debits and credits must balance"

\* C14: the answer to an unbalanced request carries the debit total and
\* the credit total, and they are the exact sums of the submitted debit
\* amounts and of the submitted credit amounts.
C14_ReportedTotalsExact ==
    \A r \in Req :
      RejectedUnbalanced(r) =>
        /\ Len(res[r][1].details) = 2
        /\ res[r][1].details[1] = DecimalSum(body[r].lines, debit)
        /\ res[r][1].details[2] = DecimalSum(body[r].lines, credit)

\* Strings s and t are equal up to the case of their letters.
SameIgnoringCase(s, t) ==
    /\ Len(s) = Len(t)
    /\ \A i \in DOMAIN s :
         \/ s[i] = t[i]
         \/ \E k \in DOMAIN Uppers : {s[i], t[i]} = {Uppers[k], Lowers[k]}

\* The submitted direction is the text debit or credit in some letter case.
DirectionText(v) ==
    /\ v.t = "str"
    /\ SameIgnoringCase(v.s, debit) \/ SameIgnoringCase(v.s, credit)

\* C15: a request with a line whose direction is anything but the text
\* debit or credit in some letter case is answered 400; no request is
\* answered 400 for its directions when all of them are such text; and a
\* persisted direction is 'debit' or 'credit', the lowercase form of the
\* one submitted.
C15_DirectionNormalized ==
    \A r \in Req :
      (Validated(r) /\ body[r].t = "array" /\ Len(body[r].lines) >= 2) =>
        /\ (\E i \in DOMAIN body[r].lines : ~DirectionText(body[r].lines[i].direction))
             => RejectedCleanly(r)
        /\ (\A i \in DOMAIN body[r].lines : DirectionText(body[r].lines[i].direction))
             => ~(Len(res[r]) > 0 /\ res[r][1].error = "direction must be debit or credit")
        /\ \A i \in DOMAIN lineInserts[r] :
             /\ lineInserts[r][i].direction \in {debit, credit}
             /\ SameIgnoringCase(lineInserts[r][i].direction, body[r].lines[i].direction.s)

\* The body with the currency of every line replaced by c.
WithCurrency(b, c) ==
    ArrayLines([i \in DOMAIN b.lines |-> [b.lines[i] EXCEPT !.currency = Str(c)]])

\* Every line has a currency, and the currencies differ in letter case at
\* most.
OneCurrencyIgnoringCase(b) ==
    /\ \A i \in DOMAIN b.lines : ~Falsy(b.lines[i].currency)
    /\ \A i, j \in DOMAIN b.lines :
         SameIgnoringCase(b.lines[i].currency.s, b.lines[j].currency.s)



\* C16: a persisted currency is the submitted one with its letters in
\* upper case, and normalizing it again changes nothing; lines whose
\* currencies differ in letter case only are never rejected as a currency
\* mismatch; and the currency code is not validated otherwise: such a
\* request fares exactly as it would with every currency replaced by USD.
C16_CurrencyNormalized ==
    \A r \in Req :
      (Validated(r) /\ body[r].t = "array" /\ Len(body[r].lines) >= 2) =>
        /\ \A i \in DOMAIN lineInserts[r] :
             LET ccy == lineInserts[r][i].currency IN
               /\ SameIgnoringCase(ccy, body[r].lines[i].currency.s)
               /\ \A k \in DOMAIN ccy : ~IsIn(Lowers, ccy[k])
               /\ ToUpperCase(ccy) = ccy
        /\ OneCurrencyIgnoringCase(body[r]) =>
             /\ ~(Len(res[r]) > 0 /\ res[r][1].error = "All lines must use the same currency")
             /\ LET usd == Validation(WithCurrency(body[r], USD)) IN
                  IF Len(res[r]) > 0 /\ res[r][1].status = 400
                  THEN Response400(usd) = res[r][1]
                  ELSE usd.status = 0

\* An entry was committed whose lines were submitted with currencies that
\* differ in letter case, and both were persisted in upper case.
C16_Witness ==
    \E r \in Req :
      /\ Committed(r)
      /\ Len(body[r].lines) = 2
      /\ body[r].lines[1].currency = Str(<<"u","s","d">>)
      /\ body[r].lines[2].currency = Str(USD)
      /\ \A l \in EntryLines(entry[r].id) : l.currency = USD

\* The posting ended on a store failure.
Aborted(r) == pc[r] = "done" /\ res[r][1].status = 500

\* C17: the visible ledger holds the rows of the postings that succeeded
\* and nothing else: an aborted posting, whatever it had inserted, leaves
\* accounts, entries and lines as they were, and when the same input is
\* posted again and succeeds there is one entry for each success.
C17_AbortedLeavesNothing ==
    LET done == {q \in Req : Succeeded(q)} IN
      /\ entries = {entry[q] : q \in done}
      /\ lines = UNION {Range(lineInserts[q]) : q \in done}
      /\ Cardinality(entries) = Cardinality(done)
      /\ accounts = {a1, a2}
      /\ \A r \in Req :
           Aborted(r) => /\ entry[r] \notin entries
                         /\ Range(lineInserts[r]) \cap lines = {}

\* A posting was aborted after inserting its header and a line; the same
\* input was posted again and succeeded, and there is one entry.
C17_Witness ==
    \E r, q \in Req :
      /\ Aborted(r)
      /\ lineInserts[r] # <<>>
      /\ body[q] = body[r]
      /\ Succeeded(q)
      /\ Cardinality(entries) = 1
      /\ Cardinality(lines) = Len(body[r].lines)

\* C18: two postings against disjoint accounts, with no store failure:
\* in every interleaving neither ever waits at the store (whenever a
\* handler stands at a store call, that call can resolve) and neither
\* fails; each, once it has called the store, is eventually answered 201;
\* and when both have finished the ledger holds both entries, each with
\* all its lines.
C18_DisjointBothCommit ==
    /\ [](\A r \in Pair :
            /\ pc[r] \notin {"idle", "validating", "done"} => ENABLED StoreStepOk(r)
            /\ ~Has(trace[r], "error") /\ ~Has(trace[r], "connectError")
            /\ pc[r] = "done" => Succeeded(r) /\ Complete(entry[r]))
    /\ []((\A r \in Pair : pc[r] = "done") =>
            /\ entries = {entry[r] : r \in Pair}
            /\ Cardinality(entries) = 2
            /\ lines = UNION {Range(lineInserts[r]) : r \in Pair}
            /\ \A r \in Pair : Cardinality(EntryLines(entry[r].id)) = Len(body[r].lines))
    /\ \A r \in Pair : (pc[r] = "connect") ~> Succeeded(r)

\* Both postings have committed, and a listing taken in between returned
\* the one that committed first while the other was in progress.
C18_Witness ==
    /\ \A r \in Pair : Succeeded(r)
    /\ Cardinality(entries) = 2
    /\ Cardinality(listed) = 1

\* C19: no step of any route removes or changes a committed entry or a
\* committed line: the committed rows only grow.
C19_CommittedRowsImmutable ==
    [][entries \subseteq entries' /\ lines \subseteq lines']_vars

\* Two entries are committed, and after the first commit an account was
\* created, accounts and entries were listed and every other router wrote.
C19_Witness ==
    /\ Cardinality(entries) = 2
    /\ Cardinality(listed) = 1
    /\ listedAccounts = {a1, a2, a9}
    /\ others = OtherRouters

\* C20: every committed line references a committed entry and an account
\* that exists; no reachable state has lost an account a line references.
C20_ReferentialIntegrity ==
    \A l \in lines :
      /\ \E e \in entries : e.id = l.entry_id
      /\ l.account_id \in accounts

\* A line is committed against an account that was created by POST
\* /accounts, and a posting against that account had failed before it was.
C20_Witness ==
    /\ \E l \in lines : l.account_id \in NewAccounts
    /\ \E r \in Req :
         /\ Aborted(r)
         /\ Len(lineInserts[r]) < Len(normalizedLines[r])
         /\ NextLine(r).account_id \in NewAccounts

\* C21: every committed entry owns at least two lines, at least one of them
\* a debit line and at least one a credit line.
C21_TwoSidedEntries ==
    \A e \in entries :
      /\ Cardinality(EntryLines(e.id)) >= 2
      /\ \E l \in EntryLines(e.id) : l.direction = debit
      /\ \E l \in EntryLines(e.id) : l.direction = credit

\* A limit from which a whole number above zero is read: after blanks and
\* a plus sign it begins with digits that are not all 0.
ReadsPositive(q) ==
    /\ ~Falsy(q)
    /\ LET t == TrimStart(q.s)
           digits == DigitPrefix(IF t # <<>> /\ Head(t) = "+" THEN Tail(t) ELSE t)
       IN  \E i \in DOMAIN digits : digits[i] # "0"

C23_DuplicateCodeConflict ==
    /\ accountRes.cause = "code" =>
         <<accountRes.status, accountRes.error>> # <<500, "Failed to create account">>
    /\ \A ac, bc \in accountCodes : ac[2] = bc[2] => ac = bc
    /\ \A ac \in accountCodes : ac[1] \in accounts

\* C24: once add-item operations have committed, interleaved on one order
\* or not, the order's subtotal_amount and total_amount are the sum of
\* total_price over its items.
C24_TotalsMatchItems ==
    \A o \in orders :
        LET sum == SumPrices({i \in orderItems : i.order_id = o.id})
        IN  o.subtotal_amount = sum /\ o.total_amount = sum

\* C25: an add-item request that passed validation and whose handler has
\* ended has sent exactly one response, and has released its connection
\* exactly once if it acquired one.
C25_OneResponseOneRelease ==
    \A r \in Req :
        (pc[r] = "done" /\ Count(trace[r], "connect") = 1)
            => /\ Len(res[r]) = 1
               /\ Count(trace[r], "BEGIN") = 1 => Count(trace[r], "release") = 1

\* The rows of order_items, committed or pending in a transaction.
AllItems == orderItems \cup UNION {tx[c].items : c \in Conn}

\* C27: every item row, pending or committed, has an active product, an
\* existing order and the order's currency equal to the product's; a request
\* whose product, order or currency test failed has called ROLLBACK, owns no
\* item row, and none of its steps changes the orders or their items.
C27_ItemOnlyWhenChecksPass ==
    /\ [](/\ \A i \in AllItems :
               \E p \in Products : \E o \in orders :
                   /\ p.id = i.product_id /\ p.is_active
                   /\ o.id = i.order_id
                   /\ o.currency = p.currency
          /\ \A r \in Req :
               item[r].failure # ""
                   => /\ Count(trace[r], "ROLLBACK") >= 1
                      /\ \A i \in AllItems : i.id # ItemId(r)
                      /\ \A k \in DOMAIN res[r] : res[r][k].status # 200)
    /\ [][\A r \in Req :
            (pc'[r] # pc[r] /\ item'[r].failure # "")
                => UNCHANGED <<orders, orderItems>>]_vars

\* One request refused for its currency after another added an item.
C27_Witness ==
    \E r, q \in Req :
        /\ pc[r] = "done"
        /\ item[r].failure = "currency"
        /\ res[r] = <<Refusal("currency")>>
        /\ tx[client[r]].status = "idle"
        /\ \E i \in orderItems : i.id = ItemId(q)
        /\ \E o \in orders : o.id = o1 /\ o.total_amount > 0

C29_TaskCompletedAtSetOnce ==
    [][\A o \in tasks : \A n \in tasks' :
         n.id = o.id =>
           /\ o.completed_at # <<>> => n.completed_at = o.completed_at
           /\ \A title \in TaskTitles, status \in TaskStatuses :
                PatchTask(o.id, title, status) =>
                  /\ n.status = IF status = Null \/ status.s = <<>> THEN o.status ELSE status.s
                  /\ n.completed_at =
                       IF n.status = completed /\ o.completed_at = <<>>
                       THEN <<clock>> ELSE o.completed_at
           /\ n.completed_at # o.completed_at =>
                \E title \in TaskTitles, status \in TaskStatuses :
                    PatchTask(o.id, title, status)]_vars

\* A task created as 'completed' whose completed_at a later update set, and
\* time has passed since.
C29_Witness ==
    \E x \in tasks :
        /\ x.status = completed
        /\ x.completed_at # <<>>
        /\ x.completed_at[1] > 0
        /\ x.completed_at[1] < clock
        /\ x.title = <<"B">>

C30_NotIdempotent ==
    \A r, q \in Req :
      (r # q /\ Succeeded(r) /\ Succeeded(q) /\ body[r] = body[q]) =>
        /\ res[r][1].entry.id # res[q][1].entry.id
        /\ {res[r][1].entry, res[q][1].entry} \subseteq entries
        /\ Cardinality(EntryLines(res[r][1].entry.id)) = Len(body[r].lines)
        /\ Cardinality(EntryLines(res[q][1].entry.id)) = Len(body[q].lines)
        /\ EntryLines(res[r][1].entry.id) \cap EntryLines(res[q][1].entry.id) = {}
        /\ Cardinality({l.id : l \in EntryLines(res[r][1].entry.id)
                                 \cup EntryLines(res[q][1].entry.id)})
             = 2 * Len(body[r].lines)

\* Two postings with identical input, both answered 201.
C30_Witness ==
    \E r, q \in Req :
      /\ r # q
      /\ body[r] = body[q]
      /\ Succeeded(r) /\ Succeeded(q)
      /\ Cardinality(entries) = 2

====
